---- MODULE Spec2Model ----
(***************************************************************************)
(* A model of the CTF trace reader of vosst/lttng: the typed field model   *)
(* (ctf::Scope, ctf::Integer, ctf::Field, ctf::Event, ctf::FieldSpec) and  *)
(* the enumeration driver ctf::Trace::for_each_event with its callback     *)
(* CallbackContext::on_new_event.                                          *)
(*                                                                         *)
(* The decode engine (babeltrace 1.x) is an external library.  It is       *)
(* modelled by what its API does at the call sites of src/src/ctf.cpp:     *)
(*   - bt_ctf_iter_read_event returns NULL when the cursor has no event    *)
(*     left; otherwise it runs the registered callback on the current      *)
(*     event and returns the event.  The value the callback returns only   *)
(*     ends the engine's chain of callbacks for that event; with the one   *)
(*     callback registered here it changes nothing the loop can see.       *)
(*   - bt_iter_next moves the cursor by one event, or reports a negative   *)
(*     value.                                                              *)
(*   - the field getters record a failure in a last-error slot that        *)
(*     bt_ctf_field_get_error returns and clears.                          *)
(* A C++ exception that leaves on_new_event is taken to unwind through     *)
(* the engine's frames to the caller of for_each_event.                    *)
(***************************************************************************)
EXTENDS Integers, Sequences, FiniteSets, TLC

\* ------------------------------------------------------------------ bounds
MaxEvents == 3
MaxFields == 2

\* ------------------------------------------------------------------- Scope
\* enum class Scope: the underlying value of each enumerator.
ScopeValue ==
  [ trace_packet_header   |-> 0,
    stream_packet_context |-> 1,
    stream_event_header   |-> 2,
    stream_event_context  |-> 3,
    event_context         |-> 4,
    event_fields          |-> 5 ]

Scope == DOMAIN ScopeValue

\* ctf::scopes(): the vector the assembly iterates over.
scopes ==
  << "trace_packet_header", "stream_packet_context", "stream_event_header",
     "stream_event_context", "event_context", "event_fields" >>

\* operator< comparing with <=.
ScopeLessOrEqual(lhs, rhs) == ScopeValue[lhs] <= ScopeValue[rhs]

\* ctf::operator<<(std::ostream&, Scope): the text written for the
\* enumerator of underlying value v; nothing for any other value.
ScopeText(v) ==
  CASE v = 0 -> "trace_packet_header"
    [] v = 1 -> "stream_packet_context"
    [] v = 2 -> "stream_event_header"
    [] v = 3 -> "stream_event_context"
    [] v = 4 -> "event_context"
    [] v = 5 -> "event_fields"
    [] OTHER -> ""

\* ctf::operator<(Scope, Scope): compares the underlying values.
ScopeLess(lhs, rhs) == ScopeValue[lhs] < ScopeValue[rhs]

\* --------------------------------------------------------------- names
\* The field names used by the model, in the order std::string's operator<
\* gives them (byte-wise lexicographic).
NameOrder == << "a", "q", "ratio", "s", "size", "state", "v", "vpid" >>

Names == { NameOrder[i] : i \in 1..Len(NameOrder) }

NameIndex(n) == CHOOSE i \in 1..Len(NameOrder) : NameOrder[i] = n

StringLess(a, b) == NameIndex(a) < NameIndex(b)

\* operator< of std::tuple<Scope, std::string>: lexicographic.
KeyLess(k1, k2) ==
  \/ ScopeLess(k1[1], k2[1])
  \/ (~ScopeLess(k2[1], k1[1]) /\ StringLess(k1[2], k2[2]))

\* ------------------------------------------------------------ Field::Type
\* enum Field::Type, by numeric value 0..9.
FieldTypeNames ==
  << "unknown", "integer", "floating_point", "enumeration", "string",
     "structure", "untagged_variant", "variant", "array", "sequence" >>

FieldType == { FieldTypeNames[i] : i \in 1..Len(FieldTypeNames) }

\* operator<< of Field::Type writing the same text for array and sequence.
FieldTypeTextMerged(v) ==
  CASE v = 0 -> "unknown"
    [] v = 1 -> "integer"
    [] v = 2 -> "floating_point"
    [] v = 3 -> "enumeration"
    [] v = 4 -> "string"
    [] v = 5 -> "structure"
    [] v = 6 -> "untagged_variant"
    [] v = 7 -> "variant"
    [] v = 8 -> "array"
    [] v = 9 -> "array"
    [] OTHER -> ""

\* ctf::operator<<(std::ostream&, const Field::Type&): the text written
\* for the enumerator of value v; nothing for any other value.
FieldTypeText(v) ==
  CASE v = 0 -> "unknown"
    [] v = 1 -> "integer"
    [] v = 2 -> "floating_point"
    [] v = 3 -> "enumeration"
    [] v = 4 -> "string"
    [] v = 5 -> "structure"
    [] v = 6 -> "untagged_variant"
    [] v = 7 -> "variant"
    [] v = 8 -> "array"
    [] v = 9 -> "sequence"
    [] OTHER -> ""

\* enum ctf_type_id of the engine, by numeric value.
CtfTypeId ==
  [ CTF_TYPE_UNKNOWN |-> 0, CTF_TYPE_INTEGER |-> 1, CTF_TYPE_FLOAT |-> 2,
    CTF_TYPE_ENUM |-> 3, CTF_TYPE_STRING |-> 4, CTF_TYPE_STRUCT |-> 5,
    CTF_TYPE_UNTAGGED_VARIANT |-> 6, CTF_TYPE_VARIANT |-> 7,
    CTF_TYPE_ARRAY |-> 8, CTF_TYPE_SEQUENCE |-> 9 ]

\* static_cast<ctf::Field::Type>(type): the enumerator with the same value.
CastToFieldType(ctfType) == FieldTypeNames[CtfTypeId[ctfType] + 1]

\* ---------------------------------------------------------- ctf::Integer
\* Integer::Value is boost::variant<Void, int64_t, uint64_t>; which is the
\* index of the populated alternative.
IntegerEmpty == [ width |-> 0, base |-> 0, which |-> 0, value |-> 0 ]

IntegerSigned(i, width, base) ==
  [ width |-> width % 256, base |-> base, which |-> 1, value |-> i ]

\* The construction from an unsigned value resolved to the signed overload.
IntegerUnsignedAsSigned(u, width, base) ==
  [ width |-> width % 256, base |-> base, which |-> 1, value |-> u ]

IntegerUnsigned(u, width, base) ==
  [ width |-> width % 256, base |-> base, which |-> 2, value |-> u ]

\* is_signed testing for the unsigned alternative.
is_signed_of_unsigned(i) == i.which = 2

is_signed(i) == i.which = 1

is_empty(i) == i.which = 0

\* as_int64 and as_uint64: boost::get on the Integer's value; it throws
\* boost::bad_get when the value holds another alternative.
as_int64(i) ==
  IF i.which = 1 THEN [ st |-> "ok", v |-> i.value ]
  ELSE [ st |-> "bad_get", v |-> 0 ]

\* as_uint64 that converts a signed value instead of failing.
as_uint64_converting(i) ==
  IF i.which \in { 1, 2 } THEN [ st |-> "ok", v |-> i.value ]
  ELSE [ st |-> "bad_get", v |-> 0 ]

as_uint64(i) ==
  IF i.which = 2 THEN [ st |-> "ok", v |-> i.value ]
  ELSE [ st |-> "bad_get", v |-> 0 ]

\* ---------------------------------------------------- ctf::Field::Variant
\* The recursive variant; which is the index of the populated alternative:
\* 0 Void, 1 Integer, 2 double, 3 Enumerator, 4 std::string,
\* 5 the variant itself (boxed), 6 std::vector of variants.
VoidVariant == [ which |-> 0 ]

\* Converting construction of a Variant from a value of a bounded type.
FromInteger(i) == [ which |-> 1, integer |-> i ]

FromDouble(d) == [ which |-> 2, float |-> d ]

FromEnumerator(en) == [ which |-> 3, enumerator |-> en ]

FromString(str) == [ which |-> 4, str |-> str ]

FromVector(v) == [ which |-> 6, elems |-> v ]

\* ------------------------------------------------------------ ctf::Field
Field(name, type, value) == [ name |-> name, type |-> type, value |-> value ]

\* is_a without the comparison of the type tags.
is_a_any(f, type) == TRUE

is_a(f, type) == f.type = type

\* ------------------------------------------------ the engine's field API
\* A definition/declaration pair of the engine is one record: its type id,
\* its name, and what the getters of that type return.  err on a leaf says
\* that the engine fails to read the value of that field.
EINVAL == 22

NoFieldError == 0

bt_ctf_field_type(def) == def.type

bt_ctf_field_name(def) == def.name

\* Each getter returns its value and the new content of the last-error slot.
\* The getters of a declaration return -EINVAL for a declaration that is
\* not an integer's and leave the last-error slot alone.
bt_ctf_get_int_signedness(decl, fe) ==
  IF bt_ctf_field_type(decl) = "CTF_TYPE_INTEGER"
    THEN [ ret |-> decl.signedness, fe |-> fe ]
    ELSE [ ret |-> -EINVAL, fe |-> fe ]

bt_ctf_get_int_base(decl, fe) ==
  IF bt_ctf_field_type(decl) = "CTF_TYPE_INTEGER"
    THEN [ ret |-> decl.base, fe |-> fe ]
    ELSE [ ret |-> -EINVAL, fe |-> fe ]

bt_ctf_get_int_len(decl, fe) ==
  IF bt_ctf_field_type(decl) = "CTF_TYPE_INTEGER"
    THEN [ ret |-> decl.len, fe |-> fe ]
    ELSE [ ret |-> -EINVAL, fe |-> fe ]

\* bt_ctf_get_uint64 and bt_ctf_get_int64: 0 and an error when the value
\* cannot be read.
bt_ctf_get_integer(def, fe) ==
  IF bt_ctf_field_type(def) = "CTF_TYPE_INTEGER" /\ ~def.err
    THEN [ ret |-> def.value, fe |-> fe ]
    ELSE [ ret |-> 0, fe |-> -EINVAL ]

bt_ctf_get_float(def, fe) ==
  IF bt_ctf_field_type(def) = "CTF_TYPE_FLOAT" /\ ~def.err
    THEN [ ret |-> def.float, fe |-> fe ]
    ELSE [ ret |-> 0, fe |-> -EINVAL ]

\* NULL and an error when the string cannot be read.
bt_ctf_get_string(def, fe) ==
  IF bt_ctf_field_type(def) = "CTF_TYPE_STRING" /\ ~def.err
    THEN [ ret |-> def.str, null |-> FALSE, fe |-> fe ]
    ELSE [ ret |-> "", null |-> TRUE, fe |-> -EINVAL ]

\* bt_ctf_field_get_error(): returns the last error and clears the slot.
bt_ctf_field_get_error(fe) == [ ret |-> fe, fe |-> NoFieldError ]

\* -------------------------------------------------------- CallbackContext
\* The result of a decode step: st is "ok", "throw" (std::runtime_error or
\* another exception left the function) or "crash"; v the value; fe the
\* engine's last-error slot afterwards.
Decoded(v, fe) == [ st |-> "ok", v |-> v, fe |-> fe ]

Thrown(st, fe) == [ st |-> st, v |-> VoidVariant, fe |-> fe ]

\* process_integer_field_value: never checks the last-error slot.
process_integer_field_value(def, fe) ==
  LET base  == bt_ctf_get_int_base(def, fe)
      width == bt_ctf_get_int_len(def, base.fe)
      sign  == bt_ctf_get_int_signedness(def, width.fe)
      val   == bt_ctf_get_integer(def, sign.fe)
  IN  CASE sign.ret = 0 ->
             Decoded(FromInteger(IntegerUnsigned(val.ret, width.ret, base.ret)), val.fe)
        [] sign.ret = 1 ->
             Decoded(FromInteger(IntegerSigned(val.ret, width.ret, base.ret)), val.fe)
        [] OTHER -> Decoded(FromInteger(IntegerEmpty), sign.fe)

process_float_field_value(def, fe) ==
  LET result == bt_ctf_get_float(def, fe)
      error  == bt_ctf_field_get_error(result.fe)
  IN  IF error.ret < 0
        THEN Thrown("throw", error.fe)
        ELSE Decoded(FromDouble(result.ret), error.fe)

\* process_string_field_value: std::string is constructed from the
\* getter's pointer before the error check.  Construction from a null
\* pointer is undefined: nullString is what the build makes of it, "throw"
\* (std::logic_error) or "crash".
process_string_field_value(def, fe, nullString) ==
  LET result == bt_ctf_get_string(def, fe)
      error  == bt_ctf_field_get_error(result.fe)
  IN  IF result.null
        THEN Thrown(nullString, result.fe)
        ELSE IF error.ret < 0
               THEN Thrown("throw", error.fe)
               ELSE Decoded(FromString(result.ret), error.fe)

RECURSIVE process_field_value(_, _, _)
RECURSIVE ProcessChildren(_, _, _, _, _)

\* The loops of process_field_value over the members of a structure and the
\* elements of an array or sequence: v.push_back(process_field_value(...)).
ProcessChildren(defs, i, v, fe, nullString) ==
  IF i > Len(defs)
    THEN [ st |-> "ok", v |-> v, fe |-> fe ]
    ELSE LET r == process_field_value(defs[i], fe, nullString)
         IN  IF r.st # "ok"
               THEN [ st |-> r.st, v |-> v, fe |-> r.fe ]
               ELSE ProcessChildren(defs, i + 1, Append(v, r.v), r.fe, nullString)

process_field_value(def, fe, nullString) ==
  LET type == bt_ctf_field_type(def)
  IN  CASE type = "CTF_TYPE_UNKNOWN" -> Decoded(VoidVariant, fe)
        [] type = "CTF_TYPE_INTEGER" -> process_integer_field_value(def, fe)
        [] type = "CTF_TYPE_FLOAT" -> process_float_field_value(def, fe)
        [] type = "CTF_TYPE_ENUM" -> process_integer_field_value(def, fe)
        [] type = "CTF_TYPE_STRING" -> process_string_field_value(def, fe, nullString)
        [] type = "CTF_TYPE_STRUCT" ->
             LET r == ProcessChildren(def.members, 1, << >>, fe, nullString)
             IN  IF r.st = "ok" THEN Decoded(FromVector(r.v), r.fe)
                               ELSE Thrown(r.st, r.fe)
        [] type \in { "CTF_TYPE_UNTAGGED_VARIANT", "CTF_TYPE_VARIANT" } ->
             \* result = process_field_value(inner): a copy of the arm's
             \* variant, not a variant boxed in a variant.
             process_field_value(def.arm, fe, nullString)
        [] type \in { "CTF_TYPE_ARRAY", "CTF_TYPE_SEQUENCE" } ->
             LET elems == IF def.listErr THEN << >> ELSE def.elems
                 r == ProcessChildren(elems, 1, << >>, fe, nullString)
             IN  IF r.st = "ok" THEN Decoded(FromVector(r.v), r.fe)
                               ELSE Thrown(r.st, r.fe)
        [] OTHER -> Decoded(VoidVariant, fe)

\* process_field_definition: the Field of one field position.
process_field_definition(def, fe, nullString) ==
  LET r == process_field_value(def, fe, nullString)
  IN  [ st |-> r.st,
        field |-> Field(bt_ctf_field_name(def),
                        CastToFieldType(bt_ctf_field_type(def)), r.v),
        fe |-> r.fe ]

\* ------------------------------------------------- ctf::Event::Fields
\* std::map<Key, Field>: the entries [key, value] in the order of KeyLess,
\* no two with equivalent keys.
Key(scope, name) == << scope, name >>

\* std::map::lower_bound: the first entry whose key is not less than key;
\* Len + 1 stands for end().
lower_bound(fields, key) ==
  LET notLess == { i \in 1..Len(fields) : ~KeyLess(fields[i].key, key) }
  IN  IF notLess = {} THEN Len(fields) + 1
      ELSE CHOOSE i \in notLess : \A j \in notLess : i <= j

MapEnd(fields) == Len(fields) + 1

\* std::map::find.
find(fields, key) ==
  LET i == lower_bound(fields, key)
  IN  IF i <= Len(fields) /\ ~KeyLess(key, fields[i].key) THEN i
      ELSE MapEnd(fields)

\* An insertion that replaces the entry of an equivalent key, as
\* operator[] followed by an assignment does.
insert_or_assign(fields, key, value) ==
  LET i == lower_bound(fields, key)
  IN  IF i <= Len(fields) /\ ~KeyLess(key, fields[i].key)
        THEN [ fields EXCEPT ![i] = [ key |-> key, value |-> value ] ]
        ELSE SubSeq(fields, 1, i - 1) \o << [ key |-> key, value |-> value ] >>
               \o SubSeq(fields, i, Len(fields))

\* std::map::insert(std::make_pair(key, value)): an entry with an
\* equivalent key stays as it is.
insert(fields, key, value) ==
  LET i == lower_bound(fields, key)
  IN  IF i <= Len(fields) /\ ~KeyLess(key, fields[i].key) THEN fields
      ELSE SubSeq(fields, 1, i - 1) \o << [ key |-> key, value |-> value ] >>
             \o SubSeq(fields, i, Len(fields))

\* --------------------------------------------------------- on_new_event
\* A raw event of the engine: its name and its field positions, each a
\* scope and a definition; the positions of one scope keep their order.
RECURSIVE ScopeDefs(_, _, _)
\* bt_ctf_get_top_level_scope and bt_ctf_get_field_list: the definitions of
\* one scope of the event.
ScopeDefs(positions, scope, i) ==
  IF i > Len(positions) THEN << >>
  ELSE IF positions[i].scope = scope
         THEN << positions[i].def >> \o ScopeDefs(positions, scope, i + 1)
         ELSE ScopeDefs(positions, scope, i + 1)

RECURSIVE ReadFields(_, _, _, _, _, _)
\* The inner loop of on_new_event over the definitions of one scope.
ReadFields(fields, scope, defs, i, fe, nullString) ==
  IF i > Len(defs)
    THEN [ st |-> "ok", fields |-> fields, fe |-> fe ]
    ELSE LET key == Key(scope, bt_ctf_field_name(defs[i]))
             r   == process_field_definition(defs[i], fe, nullString)
         IN  IF r.st # "ok"
               THEN [ st |-> r.st, fields |-> fields, fe |-> r.fe ]
               ELSE ReadFields(insert(fields, key, r.field), scope, defs, i + 1,
                               r.fe, nullString)

RECURSIVE ReadScopes(_, _, _, _, _)
\* The outer loop of on_new_event: for (ctf::Scope scope : ctf::scopes()).
ReadScopes(fields, s, positions, fe, nullString) ==
  IF s > Len(scopes)
    THEN [ st |-> "ok", fields |-> fields, fe |-> fe ]
    ELSE LET r == ReadFields(fields, scopes[s], ScopeDefs(positions, scopes[s], 1),
                             1, fe, nullString)
         IN  IF r.st # "ok" THEN r
             ELSE ReadScopes(r.fields, s + 1, positions, r.fe, nullString)

\* on_new_event with the exceptions of the assembly caught: the fields
\* decoded before the failure are kept and the event is dispatched.
AssembleEventSkipsFailure(rawEvent, fe, nullString) ==
  [ st |-> "ok",
    event |-> [ name |-> rawEvent.name, cycles |-> rawEvent.cycles,
                timestamp |-> rawEvent.timestamp,
                fields |-> ReadScopes(<< >>, 1, rawEvent.positions, fe, nullString).fields ],
    fe |-> NoFieldError ]

\* on_new_event up to the call of the enumerator: the assembled ctf::Event,
\* or the exception that ended the assembly.
AssembleEvent(rawEvent, fe, nullString) ==
  LET r == ReadScopes(<< >>, 1, rawEvent.positions, fe, nullString)
  IN  [ st |-> r.st,
        event |-> [ name |-> rawEvent.name, cycles |-> rawEvent.cycles,
                    timestamp |-> rawEvent.timestamp, fields |-> r.fields ],
        fe |-> r.fe ]

\* ------------------------------------------------------- ctf::FieldSpec
\* TypeMapper<type>::extract: the alternative boost::get asks the Field's
\* variant for (as_integer, as_floating_point, as_enumerator, as_string,
\* as_collection, unwrap).
ExtractedAlternative ==
  [ integer |-> 1, floating_point |-> 2, enumeration |-> 3, string |-> 4,
    structure |-> 6, untagged_variant |-> 5, variant |-> 5, array |-> 6,
    sequence |-> 6 ]

\* The types FieldSpec can be instantiated with.
SpecTypes == DOMAIN ExtractedAlternative

FieldSpec(scope, name, type) == [ scope |-> scope, name |-> name, type |-> type ]

available_in(spec, ev) ==
  LET it == find(ev.fields, Key(spec.scope, spec.name))
  IN  IF it = MapEnd(ev.fields) THEN FALSE
      ELSE is_a(ev.fields[it].value, spec.type)

\* TypeMapper<type>::extract without the check of boost::get.
extract_unchecked(type, f) == [ st |-> "ok", v |-> f.value ]

\* TypeMapper<type>::extract(f): boost::get throws boost::bad_get when the
\* variant holds another alternative.
extract(type, f) ==
  IF f.value.which = ExtractedAlternative[type]
    THEN [ st |-> "ok", v |-> f.value ]
    ELSE [ st |-> "bad_get", v |-> VoidVariant ]

\* interpret_or_throw: std::map::at throws std::out_of_range for an absent
\* key.
interpret_or_throw(spec, ev) ==
  LET it == find(ev.fields, Key(spec.scope, spec.name))
  IN  IF it = MapEnd(ev.fields)
        THEN [ st |-> "out_of_range", v |-> VoidVariant ]
        ELSE extract(spec.type, ev.fields[it].value)

\* interpret without its test of available_in.
interpret_unguarded(spec, ev) ==
  LET it == find(ev.fields, Key(spec.scope, spec.name))
  IN  IF it = MapEnd(ev.fields)
        THEN [ st |-> "out_of_range", v |-> VoidVariant ]
        ELSE extract(spec.type, ev.fields[it].value)

\* interpret: an empty optional ("none") when available_in is false, else
\* what interpret_or_throw gives.
interpret(spec, ev) ==
  IF ~available_in(spec, ev)
    THEN [ st |-> "none", v |-> VoidVariant ]
    ELSE interpret_or_throw(spec, ev)

\* ------------------------------------------------------------- to_c_api
EventEnumeratorReply == { "ok", "stop", "stop_with_error", "continue_with_error" }

\* A value of the enum's underlying type that is none of the enumerators.
InvalidReply == "invalid"

\* The values of the enumerators of the unscoped enum EventEnumeratorReply.
ReplyValue == [ ok |-> 0, stop |-> 1, stop_with_error |-> 2, continue_with_error |-> 3 ]

\* The decimal digits std::ostream writes for an int in 0..9.
Decimal == << "0", "1", "2", "3", "4", "5", "6", "7", "8", "9" >>

\* out << reply: EventEnumeratorReply has no operator<< of its own; the
\* unscoped enum is promoted to int and written in decimal.
ReplyText(v) == IF v \in 0..9 THEN Decimal[v + 1] ELSE ""

LogicError == "std::logic_error"

\* to_c_api with the case of stop missing from the switch.
to_c_api_without_stop(reply) ==
  CASE reply = "ok" -> "BT_CB_OK"
    [] reply = "stop_with_error" -> "BT_CB_ERROR_STOP"
    [] reply = "continue_with_error" -> "BT_CB_ERROR_CONTINUE"
    [] OTHER -> LogicError

\* to_c_api with the case of continue_with_error missing from the switch.
to_c_api_without_continue(reply) ==
  CASE reply = "ok" -> "BT_CB_OK"
    [] reply = "stop" -> "BT_CB_OK_STOP"
    [] reply = "stop_with_error" -> "BT_CB_ERROR_STOP"
    [] OTHER -> LogicError

\* to_c_api with continue_with_error translated as ok is.
to_c_api_continue_as_ok(reply) ==
  CASE reply = "ok" -> "BT_CB_OK"
    [] reply = "stop" -> "BT_CB_OK_STOP"
    [] reply = "stop_with_error" -> "BT_CB_ERROR_STOP"
    [] reply = "continue_with_error" -> "BT_CB_OK"
    [] OTHER -> LogicError

to_c_api(reply) ==
  CASE reply = "ok" -> "BT_CB_OK"
    [] reply = "stop" -> "BT_CB_OK_STOP"
    [] reply = "stop_with_error" -> "BT_CB_ERROR_STOP"
    [] reply = "continue_with_error" -> "BT_CB_ERROR_CONTINUE"
    [] OTHER -> LogicError

\* ------------------------------------------------ the enumeration inputs
\* The definitions the engine supplies in the enumeration model.
IntegerDef(name, signedness, value, err) ==
  [ type |-> "CTF_TYPE_INTEGER", name |-> name, signedness |-> signedness,
    value |-> value, len |-> 64, base |-> 10, err |-> err ]

FloatDef(name, value, err) ==
  [ type |-> "CTF_TYPE_FLOAT", name |-> name, float |-> value, err |-> err ]

StringDef(name, value, err) ==
  [ type |-> "CTF_TYPE_STRING", name |-> name, str |-> value, err |-> err ]

Position(scope, def) == [ scope |-> scope, def |-> def ]

RawPositions ==
  { Position("event_fields", IntegerDef("size", 0, 128, FALSE)),
    Position("event_fields", IntegerDef("size", 0, 128, TRUE)),
    Position("event_fields", FloatDef("ratio", 2, TRUE)),
    Position("event_fields", StringDef("size", "s", FALSE)),
    Position("event_fields", StringDef("ratio", "s", TRUE)) }

PositionSeqs == UNION { [ 1..n -> RawPositions ] : n \in 0..MaxFields }

\* The raw event the engine holds at cursor position i.
RawEvents(i) ==
  { [ name |-> "malloc", cycles |-> i, timestamp |-> i, positions |-> ps ] :
      ps \in PositionSeqs }

NoRawEvent == [ none |-> TRUE ]

NoEvent == [ none |-> TRUE ]

\* The FieldSpec a handler queries, as in examples/main.cpp.
HandlerSpecs == { FieldSpec("event_fields", "size", "integer") }

NoSpec == [ none |-> TRUE ]

NoHandlerRun == [ none |-> TRUE ]

\* What a handler does besides returning one of the enumerators: it returns
\* a value that is none of them, or an exception leaves it.
HandlerThrows == "throw"

HandlerResults == EventEnumeratorReply \cup { InvalidReply, HandlerThrows }

\* One run of the handler on ev: it queries spec with interpret_or_throw
\* (or queries nothing) and ends with result.  accessor is "unused", "ok"
\* or "failed" (interpret_or_throw threw inside the handler: the handler
\* caught it when it goes on to return a reply).
RunHandler(ev, spec, result) ==
  [ reply |-> result,
    throws |-> result = HandlerThrows,
    accessor |-> IF spec = NoSpec THEN "unused"
                 ELSE IF interpret_or_throw(spec, ev).st = "ok" THEN "ok"
                 ELSE "failed" ]

\* ------------------------------------------------------- for_each_event
VARIABLES
  traceLen,        \* the number of raw events of the recording
  run,             \* the call of for_each_event: where it is and what it did
  twin,            \* the same call with every continue_with_error reply as ok
  raw,             \* the raw event the engine's cursor is on
  e,               \* the ctf::Event on_new_event holds while the handler runs
  lastFieldError,  \* the engine's last-error slot of the field getters
  replies,         \* the handler's reply to each event dispatched so far
  last,            \* what the latest run of the handler did
  ev,              \* a ctf::Event that application code builds and queries
  queried,         \* the latest query of application code and what it gave
  engine,          \* the ctf::Trace object and what it holds of the engine
  session,         \* the lttng::Session and the calls made on it
  device           \* the evdev::MultiTouchDevice and its live contacts

vars ==
  << traceLen, run, twin, raw, e, lastFieldError, replies, last, ev, queried, engine,
     session, device >>

\* The variables of a call of for_each_event.
enumVars ==
  << traceLen, run, twin, raw, e, lastFieldError, replies, last, engine, session, device >>

\* The variables of the CTF side of the library.
ctfVars == << traceLen, run, twin, raw, e, lastFieldError, replies, last, ev, queried, engine >>

\* The variables of application code that queries an event.
queryVars == << ev, queried, engine >>

EmptyEvent == [ name |-> "malloc", cycles |-> 0, timestamp |-> 0, fields |-> << >> ]

NoQuery == [ none |-> TRUE ]

\* The recording at the path given to the constructor: "absent" (no
\* directory at or under the path has an entry metadata), "undecodable" (a
\* directory with an entry metadata that the engine refuses to add) or
\* "decodable".
Locations == { "absent", "undecodable", "decodable" }

\* engine before Trace::Trace: trace is "none" (no object yet), "alive",
\* "failed" (the constructor threw) or "destroyed"; contexts, traces and
\* iterators count the bt_context, the traces added to it and the
\* bt_ctf_iter that are open; handle is the member trace_handle.
NoTrace(location) ==
  [ location |-> location, trace |-> "none", contexts |-> 0, traces |-> 0,
    handle |-> -1, iterators |-> 0 ]

\* find_directory_with_meta_data: the directory found, or the
\* std::runtime_error (a boost::filesystem error for a path that does not
\* exist).
find_directory_with_meta_data(location) ==
  IF location = "absent" THEN "throw" ELSE "found"

\* bt_context_add_trace: the id of the trace added, or a negative value.
bt_context_add_trace(location) == IF location = "decodable" THEN 0 ELSE -1

\* Trace::Trace: path_, context and trace_handle are initialised in this
\* order; the value of trace_handle is not looked at.
TraceCtor(en) ==
  IF find_directory_with_meta_data(en.location) = "throw"
    THEN [ en EXCEPT !.trace = "failed" ]
    ELSE [ en EXCEPT !.trace = "alive",
                     !.contexts = @ + 1,
                     !.handle = bt_context_add_trace(en.location),
                     !.traces = IF bt_context_add_trace(en.location) >= 0
                                  THEN @ + 1 ELSE @ ]

\* Trace::~Trace is defaulted: the members are destroyed, a pointer and an
\* int among them, and no engine function is called.
TraceDtor(en) == [ en EXCEPT !.trace = "destroyed" ]

\* bt_ctf_iter_create in for_each_event; nothing calls bt_ctf_iter_destroy.
bt_ctf_iter_create(en) == [ en EXCEPT !.iterators = @ + 1 ]

\* pc: "Idle" before the call, "Reading" at the loop's
\* bt_ctf_iter_read_event, "Dispatching" inside the handler, "Advancing" at
\* bt_iter_next, and the ends "Returned" (the call returned), "Failed" (an
\* exception left the call), "Crashed".
NewRun ==
  [ pc |-> "Idle", cursor |-> 0, dispatched |-> << >>, rets |-> << >>,
    error |-> "none", iterFailed |-> FALSE ]

Terminal == { "Returned", "Failed", "Crashed" }

\* What the caller of the void for_each_event can observe of its end.
CallerObserves(ls) ==
  CASE ls.pc = "Returned" -> "returned"
    [] ls.pc = "Failed" -> "exception"
    [] ls.pc = "Crashed" -> "crash"
    [] OTHER -> "pending"

\* bt_ctf_iter_create(context, begin, end) and bt_ctf_iter_add_callback.
StartStep(ls) == [ ls EXCEPT !.pc = "Reading", !.cursor = 1 ]

\* The while loop without its test of the event read.
EndStepStays(ls) == ls

\* bt_ctf_iter_read_event returned NULL: the while loop ends.
EndStep(ls) == [ ls EXCEPT !.pc = "Returned" ]

\* bt_ctf_iter_read_event runs on_new_event on the current event; asm is
\* the result of its assembly.
ReadStep(ls, asm) ==
  CASE asm.st = "ok" -> [ ls EXCEPT !.pc = "Dispatching" ]
    [] asm.st = "throw" -> [ ls EXCEPT !.pc = "Failed", !.error = "decode" ]
    [] OTHER -> [ ls EXCEPT !.pc = "Crashed", !.error = "decode" ]

\* on_new_event with the handler's exceptions caught and reported to the
\* engine as BT_CB_ERROR_STOP.
CallEnumeratorSwallows(h) ==
  IF h.throws THEN [ st |-> "return", error |-> "none", ret |-> "BT_CB_ERROR_STOP" ]
  ELSE IF to_c_api(h.reply) = LogicError
         THEN [ st |-> "throw", error |-> "contract", ret |-> "none" ]
         ELSE [ st |-> "return", error |-> "none", ret |-> to_c_api(h.reply) ]

\* return to_c_api(enumerator(e)): the value on_new_event returns to the
\* engine, or the exception that leaves it.
CallEnumerator(h) ==
  IF h.throws THEN [ st |-> "throw", error |-> "handler", ret |-> "none" ]
  ELSE IF to_c_api(h.reply) = LogicError
         THEN [ st |-> "throw", error |-> "contract", ret |-> "none" ]
         ELSE [ st |-> "return", error |-> "none", ret |-> to_c_api(h.reply) ]

\* A loop that ends when the callback reported an error to the engine.
DispatchStepStopsOnError(ls, h) ==
  IF h.throws \/ to_c_api(h.reply) = LogicError
    THEN [ ls EXCEPT !.pc = "Failed", !.error = "handler",
                     !.dispatched = Append(@, ls.cursor) ]
    ELSE [ ls EXCEPT !.pc = IF to_c_api(h.reply) = "BT_CB_ERROR_CONTINUE"
                              THEN "Returned" ELSE "Advancing",
                     !.rets = Append(@, to_c_api(h.reply)),
                     !.dispatched = Append(@, ls.cursor) ]

\* The handler ran on the event at the cursor.  Whatever bt_cb_ret the
\* callback returns, bt_ctf_iter_read_event returns the event and the loop
\* body goes on to bt_iter_next; an exception leaves for_each_event.
DispatchStep(ls, h) ==
  LET c == CallEnumerator(h)
  IN  IF c.st = "throw"
        THEN [ ls EXCEPT !.pc = "Failed", !.error = c.error,
                         !.dispatched = Append(@, ls.cursor) ]
        ELSE [ ls EXCEPT !.pc = "Advancing", !.rets = Append(@, c.ret),
                         !.dispatched = Append(@, ls.cursor) ]

\* A loop that moves the cursor twice per event.
NextStepSkips(ls, rc) ==
  IF rc < 0 THEN [ ls EXCEPT !.pc = "Returned", !.iterFailed = TRUE ]
  ELSE [ ls EXCEPT !.pc = "Reading", !.cursor = @ + 2 ]

\* A loop that throws when bt_iter_next fails.
NextStepThrows(ls, rc) ==
  IF rc < 0 THEN [ ls EXCEPT !.pc = "Failed", !.error = "iterator", !.iterFailed = TRUE ]
  ELSE [ ls EXCEPT !.pc = "Reading", !.cursor = @ + 1 ]

\* if (bt_iter_next(bt_ctf_get_iter(it)) < 0) break;
NextStep(ls, rc) ==
  IF rc < 0 THEN [ ls EXCEPT !.pc = "Returned", !.iterFailed = TRUE ]
  ELSE [ ls EXCEPT !.pc = "Reading", !.cursor = @ + 1 ]

\* The twin takes the step of the run while it is where the run is.
InStep == twin.pc = run.pc /\ twin.cursor = run.cursor

TwinStep(next) == IF InStep THEN next ELSE twin

\* The twin's handler: continue_with_error replaced by ok.
AsOk(h) == [ h EXCEPT !.reply = IF @ = "continue_with_error" THEN "ok" ELSE @ ]

\* No lttng::Session is constructed yet.
NoSession == [ state |-> "none", calls |-> << >> ]

\* slots({0, 1, 2, 3, 4, 5, 6, 7, 8, 9})
InitialSlots == 0..9

\* MultiTouchDevice::MultiTouchDevice: every slot free, touch_identifier 0,
\* no contact yet. issued holds the tracking ids handed out so far.
MultiTouchDeviceCtor ==
  [ state |-> "open", slots |-> InitialSlots, touch_identifier |-> 0,
    contacts |-> {}, issued |-> {} ]

Init ==
  /\ traceLen \in 0..MaxEvents
  /\ run = NewRun
  /\ twin = NewRun
  /\ raw = NoRawEvent
  /\ e = NoEvent
  /\ lastFieldError = NoFieldError
  /\ replies = << >>
  /\ last = NoHandlerRun
  /\ ev = EmptyEvent
  /\ queried = NoQuery
  /\ engine = TraceCtor(NoTrace("decodable"))
  /\ session = NoSession
  /\ device = MultiTouchDeviceCtor

ForEachEvent ==
  /\ run.pc = "Idle"
  /\ engine.trace = "alive"
  /\ run' = StartStep(run)
  /\ twin' = TwinStep(StartStep(twin))
  /\ engine' = bt_ctf_iter_create(engine)
  /\ UNCHANGED << traceLen, raw, e, lastFieldError, replies, last, ev, queried, session, device >>

EndOfTrace ==
  /\ run.pc = "Reading"
  /\ run.cursor > traceLen
  /\ run' = EndStep(run)
  /\ twin' = TwinStep(EndStep(twin))
  /\ raw' = NoRawEvent
  /\ UNCHANGED << traceLen, e, lastFieldError, replies, last, ev, queried, engine,
                  session, device >>

\* bt_ctf_iter_read_event on a cursor that has an event, one of rawEvents:
\* on_new_event assembles it.
ReadEventFrom(rawEvents) ==
  /\ run.pc = "Reading"
  /\ run.cursor <= traceLen
  /\ \E rawEvent \in rawEvents, nullString \in { "throw", "crash" } :
       \E asm \in { AssembleEvent(rawEvent, lastFieldError, nullString) } :
           /\ raw' = rawEvent
           /\ e' = IF asm.st = "ok" THEN asm.event ELSE NoEvent
           /\ lastFieldError' = asm.fe
           /\ run' = ReadStep(run, asm)
           /\ twin' = TwinStep(ReadStep(twin, asm))
  /\ UNCHANGED << traceLen, replies, last, ev, queried, engine,
                  session, device >>

ReadEvent == ReadEventFrom(RawEvents(run.cursor))

Dispatch ==
  /\ run.pc = "Dispatching"
  /\ \E spec \in HandlerSpecs \cup { NoSpec }, result \in HandlerResults :
       \E h \in { RunHandler(e, spec, result) } :
           /\ replies' = Append(replies, h.reply)
           /\ last' = h
           /\ run' = DispatchStep(run, h)
           /\ twin' = TwinStep(DispatchStep(twin, AsOk(h)))
  /\ e' = NoEvent
  /\ raw' = NoRawEvent
  /\ UNCHANGED << traceLen, lastFieldError, ev, queried, engine,
                  session, device >>

IterNext ==
  /\ run.pc = "Advancing"
  /\ run' = NextStep(run, 0)
  /\ twin' = TwinStep(NextStep(twin, 0))
  /\ UNCHANGED << traceLen, raw, e, lastFieldError, replies, last, ev, queried, engine,
                  session, device >>

IterNextFails ==
  /\ run.pc = "Advancing"
  /\ run' = NextStep(run, -1)
  /\ twin' = TwinStep(NextStep(twin, -1))
  /\ UNCHANGED << traceLen, raw, e, lastFieldError, replies, last, ev, queried, engine,
                  session, device >>

Next ==
  \/ ForEachEvent
  \/ EndOfTrace
  \/ ReadEvent
  \/ Dispatch
  \/ IterNext
  \/ IterNextFails

Spec == Init /\ [][Next]_vars

\* --------------------------------------------- the life of a ctf::Trace
\* A Trace is constructed on a location, for_each_event is called on it at
\* most once, and it is destroyed, also by the unwinding of an exception
\* that left for_each_event.
InitTrace ==
  /\ engine \in { NoTrace(location) : location \in Locations }
  /\ traceLen \in IF engine.location = "decodable" THEN 0..MaxEvents ELSE { 0 }
  /\ run = NewRun
  /\ twin = NewRun
  /\ raw = NoRawEvent
  /\ e = NoEvent
  /\ lastFieldError = NoFieldError
  /\ replies = << >>
  /\ last = NoHandlerRun
  /\ ev = EmptyEvent
  /\ queried = NoQuery
  /\ session = NoSession
  /\ device = MultiTouchDeviceCtor

\* ctf::Trace trace(path)
Construct ==
  /\ engine.trace = "none"
  /\ engine' = TraceCtor(engine)
  /\ UNCHANGED << traceLen, run, twin, raw, e, lastFieldError, replies, last, ev, queried, session, device >>

\* trace.~Trace()
Destroy ==
  /\ engine.trace = "alive"
  /\ run.pc \in { "Idle", "Returned", "Failed" }
  /\ engine' = TraceDtor(engine)
  /\ UNCHANGED << traceLen, run, twin, raw, e, lastFieldError, replies, last, ev, queried, session, device >>

NextTrace ==
  \/ Construct
  \/ Destroy
  \/ ForEachEvent
  \/ EndOfTrace
  \/ ReadEvent
  \/ Dispatch
  \/ IterNext
  \/ IterNextFails

SpecTrace == InitTrace /\ [][NextTrace]_vars

\* ------------------------------------- traces of every kind of field
\* The same call of for_each_event on a recording whose events hold fields
\* of the compound kinds: enumerations, variants, structures, arrays and
\* sequences.
MaxDecodeFields == 1

\* The calls made on one Session, its construction included.
MaxCalls == 3

\* The contacts added to one MultiTouchDevice.
MaxContacts == 11

\* An enumeration: the label bt_ctf_get_enum_str gives (labelErr: the
\* engine has none) and the integer definition bt_ctf_get_enum_int gives.
EnumDef(name, label, labelErr, value) ==
  [ type |-> "CTF_TYPE_ENUM", name |-> name, label |-> label,
    labelErr |-> labelErr, int |-> IntegerDef(name, 0, value, FALSE) ]

\* A variant: arm is the definition bt_ctf_get_variant gives, the selected
\* arm.
VariantDef(type, name, arm) == [ type |-> type, name |-> name, arm |-> arm ]

\* A structure: bt_ctf_get_struct_field_count and
\* bt_ctf_get_struct_field_index enumerate members.
StructDef(name, members) ==
  [ type |-> "CTF_TYPE_STRUCT", name |-> name, members |-> members ]

\* An array or a sequence of the declared elements elems; listErr: the
\* engine's bt_ctf_get_field_list does not return 0 for it.
ArrayDef(type, name, elems, listErr) ==
  [ type |-> type, name |-> name, elems |-> elems, listErr |-> listErr ]

SchemaPositions ==
  { Position("event_fields", IntegerDef("size", 0, 128, FALSE)),
    Position("event_fields",
             [ IntegerDef("size", 0, 4096, FALSE) EXCEPT !.len = 32, !.base = 16 ]),
    Position("stream_event_context", IntegerDef("vpid", 1, -5, FALSE)),
    Position("event_fields", EnumDef("state", "RUNNING", FALSE, 1)),
    Position("event_fields", EnumDef("state", "", TRUE, 1)),
    Position("event_fields",
             VariantDef("CTF_TYPE_VARIANT", "v", IntegerDef("size", 0, 7, FALSE))),
    Position("event_fields",
             VariantDef("CTF_TYPE_UNTAGGED_VARIANT", "v", StringDef("s", "s", FALSE))),
    Position("event_fields",
             StructDef("s", << IntegerDef("size", 0, 1, FALSE),
                               ArrayDef("CTF_TYPE_ARRAY", "a",
                                        << StructDef("s", << StringDef("q", "s", FALSE) >>) >>,
                                        FALSE) >>)),
    Position("event_fields", StructDef("s", << FloatDef("ratio", 2, TRUE) >>)),
    Position("event_fields", ArrayDef("CTF_TYPE_ARRAY", "a", << >>, FALSE)),
    Position("event_fields",
             ArrayDef("CTF_TYPE_ARRAY", "a",
                      << IntegerDef("size", 0, 1, FALSE), IntegerDef("size", 0, 2, FALSE) >>,
                      TRUE)),
    Position("event_fields",
             ArrayDef("CTF_TYPE_SEQUENCE", "q",
                      << IntegerDef("size", 0, 3, FALSE), IntegerDef("size", 1, -4, FALSE) >>,
                      FALSE)) }

SchemaPositionSeqs == UNION { [ 1..n -> SchemaPositions ] : n \in 0..MaxDecodeFields }

SchemaEvents(i) ==
  { [ name |-> "malloc", cycles |-> i, timestamp |-> i, positions |-> ps ] :
      ps \in SchemaPositionSeqs }

ReadSchemaEvent == ReadEventFrom(SchemaEvents(run.cursor))

NextDecode ==
  \/ ForEachEvent
  \/ EndOfTrace
  \/ ReadSchemaEvent
  \/ Dispatch
  \/ IterNext
  \/ IterNextFails

SpecDecode == Init /\ [][NextDecode]_vars

\* ------------------------------------- traces with repeated field names
\* The same call of for_each_event on a recording whose events hold fields
\* of one name, several in one scope and in two scopes.
RepeatedPositions ==
  { Position("event_fields", IntegerDef("size", 0, 128, FALSE)),
    Position("event_fields", IntegerDef("size", 0, 7, FALSE)),
    Position("event_fields", StringDef("size", "s", FALSE)),
    Position("stream_event_context", IntegerDef("size", 0, 5, FALSE)) }

RepeatedPositionSeqs == UNION { [ 1..n -> RepeatedPositions ] : n \in 0..MaxFields }

RepeatedEvents(i) ==
  { [ name |-> "malloc", cycles |-> i, timestamp |-> i, positions |-> ps ] :
      ps \in RepeatedPositionSeqs }

ReadRepeatedEvent == ReadEventFrom(RepeatedEvents(run.cursor))

NextRepeated ==
  \/ ForEachEvent
  \/ EndOfTrace
  \/ ReadRepeatedEvent
  \/ Dispatch
  \/ IterNext
  \/ IterNextFails

SpecRepeated == Init /\ [][NextRepeated]_vars

\* ------------------------------------------- querying an event by FieldSpec
\* Application code builds a ctf::Event through the public members of
\* Event and the public constructor of Field, and queries it.
MaxMapSize == 2

QueryScopes == { "stream_event_context", "event_fields" }

QueryNames == { "size", "vpid" }

QueryTypes == { "integer", "string", "variant" }

QueryValues ==
  { FromInteger(IntegerUnsigned(128, 64, 10)), FromString("s") }

QuerySpecs ==
  { FieldSpec(scope, name, type) :
      scope \in QueryScopes, name \in QueryNames, type \in QueryTypes }

InitFieldSpec == Init /\ traceLen = 0

\* e.fields.insert(std::make_pair(Key{scope, name}, Field(name, type, value)))
InsertField ==
  /\ Len(ev.fields) < MaxMapSize
  /\ \E scope \in QueryScopes, name \in QueryNames, type \in QueryTypes,
        value \in QueryValues :
       ev' = [ ev EXCEPT !.fields =
                 insert(@, Key(scope, name), Field(name, type, value)) ]
  /\ queried' = NoQuery
  /\ UNCHANGED enumVars

\* spec.available_in(e)
QueryAvailableIn ==
  /\ \E spec \in QuerySpecs :
       queried' = [ spec |-> spec, op |-> "available_in",
                    value |-> available_in(spec, ev) ]
  /\ UNCHANGED ev
  /\ UNCHANGED enumVars

\* spec.interpret(e)
QueryInterpret ==
  /\ \E spec \in QuerySpecs :
       queried' = [ spec |-> spec, op |-> "interpret",
                    result |-> interpret(spec, ev) ]
  /\ UNCHANGED ev
  /\ UNCHANGED enumVars

\* spec.interpret_or_throw(e)
QueryInterpretOrThrow ==
  /\ \E spec \in QuerySpecs :
       queried' = [ spec |-> spec, op |-> "interpret_or_throw",
                    result |-> interpret_or_throw(spec, ev) ]
  /\ UNCHANGED ev
  /\ UNCHANGED enumVars

NextFieldSpec ==
  \/ InsertField
  \/ QueryAvailableIn
  \/ QueryInterpret
  \/ QueryInterpretOrThrow

SpecFieldSpec == InitFieldSpec /\ [][NextFieldSpec]_vars

\* ------------------------------------------------ using a ctf::Integer
\* Application code constructs a ctf::Integer and calls its accessors;
\* queried holds the Integer, how it was built and what the latest accessor
\* gave.
SignedValues == { -5, 0, 1, 128 }

UnsignedValues == { 0, 1, 128 }

Widths == { 8, 32, 64 }

Bases == { 2, 8, 10, 16 }

NoAccess == [ none |-> TRUE ]

\* ctf::Integer i(std::int64_t{v}, width, base)
ConstructSigned ==
  /\ \E v \in SignedValues, width \in Widths, base \in Bases :
       queried' = [ op |-> "Integer", ctor |-> "signed", arg |-> v,
                    integer |-> IntegerSigned(v, width, base), got |-> NoAccess ]
  /\ UNCHANGED ev
  /\ UNCHANGED enumVars

\* ctf::Integer i(std::uint64_t{u}, width, base)
ConstructUnsigned ==
  /\ \E u \in UnsignedValues, width \in Widths, base \in Bases :
       queried' = [ op |-> "Integer", ctor |-> "unsigned", arg |-> u,
                    integer |-> IntegerUnsigned(u, width, base), got |-> NoAccess ]
  /\ UNCHANGED ev
  /\ UNCHANGED enumVars

\* ctf::Integer i
ConstructDefault ==
  /\ queried' = [ op |-> "Integer", ctor |-> "default", arg |-> 0,
                  integer |-> IntegerEmpty, got |-> NoAccess ]
  /\ UNCHANGED ev
  /\ UNCHANGED enumVars

HasInteger == queried # NoQuery /\ queried.op = "Integer"

\* i.is_signed()
CallIsSigned ==
  /\ HasInteger
  /\ queried' = [ queried EXCEPT !.got = [ fn |-> "is_signed",
                                            flag |-> is_signed(queried.integer) ] ]
  /\ UNCHANGED ev
  /\ UNCHANGED enumVars

\* i.is_empty()
CallIsEmpty ==
  /\ HasInteger
  /\ queried' = [ queried EXCEPT !.got = [ fn |-> "is_empty",
                                            flag |-> is_empty(queried.integer) ] ]
  /\ UNCHANGED ev
  /\ UNCHANGED enumVars

\* i.as_int64()
CallAsInt64 ==
  /\ HasInteger
  /\ queried' = [ queried EXCEPT !.got = [ fn |-> "as_int64",
                                            result |-> as_int64(queried.integer) ] ]
  /\ UNCHANGED ev
  /\ UNCHANGED enumVars

\* i.as_uint64()
CallAsUint64 ==
  /\ HasInteger
  /\ queried' = [ queried EXCEPT !.got = [ fn |-> "as_uint64",
                                            result |-> as_uint64(queried.integer) ] ]
  /\ UNCHANGED ev
  /\ UNCHANGED enumVars

\* lhs < rhs on two Scopes
CompareScopes ==
  /\ \E lhs \in Scope, rhs \in Scope :
       queried' = [ op |-> "less", lhs |-> lhs, rhs |-> rhs,
                    value |-> ScopeLess(lhs, rhs) ]
  /\ UNCHANGED ev
  /\ UNCHANGED enumVars

\* for (ctf::Scope scope : ctf::scopes())
ListScopes ==
  /\ queried' = [ op |-> "scopes", list |-> scopes ]
  /\ UNCHANGED ev
  /\ UNCHANGED enumVars

\* out << scope
RenderScope ==
  /\ \E scope \in Scope :
       queried' = [ op |-> "render", set |-> "Scope", of |-> ScopeValue[scope],
                    text |-> ScopeText(ScopeValue[scope]) ]
  /\ UNCHANGED ev
  /\ UNCHANGED enumVars

\* out << type
RenderFieldType ==
  /\ \E v \in 0..(Len(FieldTypeNames) - 1) :
       queried' = [ op |-> "render", set |-> "Field::Type", of |-> v,
                    text |-> FieldTypeText(v) ]
  /\ UNCHANGED ev
  /\ UNCHANGED enumVars

\* out << reply
RenderReply ==
  /\ \E reply \in EventEnumeratorReply :
       queried' = [ op |-> "render", set |-> "EventEnumeratorReply",
                    of |-> ReplyValue[reply], text |-> ReplyText(ReplyValue[reply]) ]
  /\ UNCHANGED ev
  /\ UNCHANGED enumVars

NextInteger ==
  \/ ConstructSigned
  \/ ConstructUnsigned
  \/ ConstructDefault
  \/ CallIsSigned
  \/ CallIsEmpty
  \/ CallAsInt64
  \/ CallAsUint64

SpecInteger == InitFieldSpec /\ [][NextInteger]_vars

\* Application code using the value types: Integer, Scope and the
\* renderings of the enumerations.
NextValues ==
  \/ ConstructSigned
  \/ ConstructUnsigned
  \/ ConstructDefault
  \/ CallIsSigned
  \/ CallIsEmpty
  \/ CallAsInt64
  \/ CallAsUint64
  \/ CompareScopes
  \/ ListScopes
  \/ RenderScope
  \/ RenderFieldType
  \/ RenderReply

SpecValues == InitFieldSpec /\ [][NextValues]_vars

\* The scheduling of the one thread that runs for_each_event: the call, once
\* made, keeps running.
FairSpec == Spec /\ WF_vars(Next)

\* ------------------------------------------------------------ properties
Upto(n) == [ i \in 1..n |-> i ]

StopReplies == { "stop", "stop_with_error" }

ContinueReplies == { "ok", "continue_with_error" }

\* The bt_cb_ret values of the engine.
BtCbRet == { "BT_CB_OK", "BT_CB_OK_STOP", "BT_CB_ERROR_STOP", "BT_CB_ERROR_CONTINUE" }

\* C1: once the handler has replied stop or stop_with_error to the k-th
\* event, the handler is not run on any event after the k-th.
C1_StopEndsEnumeration ==
  \A k \in 1..Len(replies) :
    replies[k] \in StopReplies =>
      /\ Len(run.dispatched) = k
      /\ run.pc # "Dispatching"

\* The handler replied ok to the first N-1 events of a trace of N events and
\* stop to the last.
StopOnLast ==
  /\ traceLen >= 1
  /\ Len(replies) = traceLen
  /\ \A k \in 1..(traceLen - 1) : replies[k] = "ok"
  /\ replies[traceLen] = "stop"

\* What the caller observes of a call that ended because the cursor ran out
\* of events.
ExhaustedObservation == CallerObserves(EndStep(NewRun))

\* C2 as stated: after ok to the first N-1 events and stop to the last,
\* exactly N events were dispatched and the caller observes an outcome
\* "stopped" that is neither that of exhaustion nor that of a failure.
C2_StoppedIsReported ==
  (StopOnLast /\ run.pc \in Terminal) =>
    /\ run.dispatched = Upto(traceLen)
    /\ CallerObserves(run) \notin { ExhaustedObservation, "exception", "crash" }

\* C2 as amended: after ok to the first N-1 events and stop to the last,
\* exactly N events were dispatched and the call returns normally, which is
\* all the caller observes of an exhausted trace as well; no error is
\* raised.
C2_StopOnLastReturns ==
  (StopOnLast /\ run.pc \in Terminal) =>
    /\ run.dispatched = Upto(traceLen)
    /\ CallerObserves(run) = ExhaustedObservation
    /\ run.error = "none"

C2_Witness ==
  StopOnLast /\ run.pc = "Returned" /\ ~run.iterFailed /\ traceLen >= 2

\* C3: when the handler fails on the k-th event, the events 1..k were
\* passed to it once each and in order, the k-th being the last one ever
\* dispatched, and the exception leaves for_each_event.
C3_HandlerFailure ==
  \A k \in 1..Len(replies) :
    replies[k] = HandlerThrows =>
      /\ run.dispatched = Upto(k)
      /\ run.pc = "Failed"
      /\ run.error = "handler"
      /\ CallerObserves(run) = "exception"
      /\ e = NoEvent

C3_Witness ==
  /\ traceLen = 3
  /\ Len(replies) = 2
  /\ replies[2] = HandlerThrows
  /\ run.pc = "Failed"

\* The engine fails to read a floating-point field of the raw event.
EngineFailsFloat(rawEvent) ==
  \E i \in 1..Len(rawEvent.positions) :
    /\ rawEvent.positions[i].def.type = "CTF_TYPE_FLOAT"
    /\ rawEvent.positions[i].def.err

\* C4: when the decoding of a field of the raw event at the cursor raises
\* an error, the handler is not run on that event and no event is handed
\* out, no later event is dispatched, and the call ends with the exception;
\* a raw event with a floating-point field the engine fails to read never
\* reaches the handler.
C4_DecodeError ==
  /\ (run.error = "decode" /\ run.pc = "Failed") =>
       /\ e = NoEvent
       /\ run.dispatched = Upto(run.cursor - 1)
       /\ Len(replies) = run.cursor - 1
       /\ CallerObserves(run) = "exception"
  /\ (raw # NoRawEvent /\ EngineFailsFloat(raw)) =>
       /\ run.pc \in { "Failed", "Crashed" }
       /\ run.error = "decode"
       /\ e = NoEvent

C4_Witness ==
  /\ run.error = "decode"
  /\ run.pc = "Failed"
  /\ run.cursor = 2
  /\ traceLen = 3
  /\ Len(raw.positions) = 2
  /\ raw.positions[1].def.type = "CTF_TYPE_INTEGER"
  /\ raw.positions[2].def.type = "CTF_TYPE_FLOAT"

AllOk == \A k \in 1..Len(replies) : replies[k] = "ok"

\* C5: while the handler replies ok, the events dispatched are the events
\* 1, 2, ... of the engine in that order, each once, up to the event at the
\* cursor; when the call returns after the cursor ran out, they are all
\* the events of the trace.
C5_InOrderOnce ==
  AllOk =>
    /\ run.dispatched = Upto(Len(run.dispatched))
    /\ Len(replies) = Len(run.dispatched)
    /\ run.pc \in { "Reading", "Dispatching" } => Len(run.dispatched) = run.cursor - 1
    /\ run.pc = "Advancing" => Len(run.dispatched) = run.cursor
    /\ (run.pc = "Returned" /\ ~run.iterFailed) => run.dispatched = Upto(traceLen)

C5_Witness ==
  /\ AllOk
  /\ traceLen = 3
  /\ run.pc = "Returned"
  /\ run.dispatched = << 1, 2, 3 >>

OnlyContinueReplies == \A k \in 1..Len(replies) : replies[k] \in ContinueReplies

\* C6: every call of for_each_event ends; with a handler that only replies
\* ok or continue_with_error it ends by returning normally once the cursor
\* has no more events, with no error raised by the replies.
C6_Terminates ==
  /\ <>(run.pc \in Terminal)
  /\ [](  (OnlyContinueReplies /\ run.pc = "Reading" /\ run.cursor > traceLen)
          => <>(run.pc = "Returned" /\ run.error = "none"))
  /\ []((OnlyContinueReplies /\ run.pc \in Terminal) =>
          (run.error \in { "none", "decode" } /\ (run.error = "none" => run.pc = "Returned")))

C6_Witness ==
  /\ OnlyContinueReplies
  /\ traceLen = 3
  /\ Len(replies) = 3
  /\ replies[2] = "continue_with_error"
  /\ run.pc = "Returned"
  /\ ~run.iterFailed

\* The control flow of a call: where it is, which events it dispatched and
\* how it ended.
Control(ls) == << ls.pc, ls.cursor, ls.dispatched, ls.error, ls.iterFailed >>

\* C7: the call whose handler replies continue_with_error and the call on
\* the same trace whose handler replies ok in its place dispatch the same
\* events in the same order and end the same way.
C7_ContinueWithErrorAsOk == Control(twin) = Control(run)

C7_Witness ==
  /\ traceLen = 3
  /\ Len(replies) = 3
  /\ replies[1] = "continue_with_error"
  /\ replies[3] = "continue_with_error"
  /\ run.pc = "Returned"
  /\ Len(twin.rets) = 3
  /\ twin.rets # run.rets

\* C8: a reply that is none of the four enumerators raises an error and is
\* not handed to the engine; each of the four is handed to the engine as a
\* bt_cb_ret, different replies as different values.
C8_ReplyTranslation ==
  /\ \A k \in 1..Len(replies) :
       replies[k] = InvalidReply =>
         /\ k = Len(replies)
         /\ Len(run.rets) = k - 1
         /\ run.pc = "Failed"
         /\ run.error = "contract"
  /\ \A k \in 1..Len(replies) :
       replies[k] \in EventEnumeratorReply =>
         /\ k <= Len(run.rets)
         /\ run.rets[k] \in BtCbRet
  /\ \A j, k \in 1..Len(run.rets) :
       replies[j] # replies[k] => run.rets[j] # run.rets[k]

C8_Witness ==
  /\ Len(replies) = 3
  /\ replies[1] = "ok"
  /\ replies[2] = "continue_with_error"
  /\ replies[3] = InvalidReply
  /\ run.pc = "Failed"

\* The handler caught a failure of interpret_or_throw on the latest event
\* and replied with an enumerator other than stop_with_error.
AccessorFailureTolerated ==
  /\ last # NoHandlerRun
  /\ last.accessor = "failed"
  /\ last.reply \in EventEnumeratorReply \ { "stop_with_error" }

HoldsTagged(spec, event) ==
  \E i \in 1..Len(event.fields) :
    /\ event.fields[i].key = << spec.scope, spec.name >>
    /\ event.fields[i].value.type = spec.type

\* C10: available_in gives a boolean: true exactly when the event holds a
\* Field under the (scope, name) of the spec whose type tag is the type of
\* the spec, false for every absent key.
C10_AvailableIn ==
  (queried # NoQuery /\ queried.op = "available_in") =>
    /\ queried.value \in BOOLEAN
    /\ queried.value = HoldsTagged(queried.spec, ev)

C10_Witness ==
  /\ queried # NoQuery
  /\ queried.op = "available_in"
  /\ queried.value
  /\ Len(ev.fields) = 2
  /\ ev.fields[2].key = << queried.spec.scope, queried.spec.name >>
  /\ ev.fields[1].value.type # ev.fields[2].value.type

\* The entries of the event stored under the (scope, name) of spec.
StoredUnder(spec, event) ==
  { i \in 1..Len(event.fields) : event.fields[i].key = << spec.scope, spec.name >> }

C12_InterpretNeverRaises ==
  (queried # NoQuery /\ queried.op = "interpret") =>
    queried.result.st \in { "none", "ok" }

\* What a call of interpret_or_throw with outcome q on event gives.
InterpretOrThrowContract(q, event) ==
  LET present == StoredUnder(q.spec, event)
      wrong   == { i \in present :
                     event.fields[i].value.value.which # ExtractedAlternative[q.spec.type] }
  IN  /\ q.result.st \in { "ok", "out_of_range", "bad_get" }
      /\ (q.result.st = "out_of_range") <=> (present = {})
      /\ (q.result.st = "bad_get") <=> (wrong # {})
      /\ (q.result.st = "ok") =>
           \E i \in present : q.result.v = event.fields[i].value.value

Delivered == run.pc = "Dispatching" /\ raw # NoRawEvent /\ e # NoEvent

\* The positions of the delivered raw event whose definition is of one of
\* the engine's types.
PositionsOfType(types) ==
  { i \in 1..Len(raw.positions) : raw.positions[i].def.type \in types }

\* The Field the delivered event holds for position i of the raw event.
DeliveredField(i) ==
  LET k == CHOOSE j \in 1..Len(e.fields) :
             e.fields[j].key = << raw.positions[i].scope, raw.positions[i].def.name >>
  IN  e.fields[k].value

\* The spec of the type of the field at position i of the raw event.
SpecOfPosition(i) ==
  FieldSpec(raw.positions[i].scope, raw.positions[i].def.name,
            CastToFieldType(raw.positions[i].def.type))

\* C14: every Field of an event passed to the handler holds the alternative
\* of its type tag: integer the Integer, floating_point the double,
\* enumeration the Enumerator, string the string, structure, array and
\* sequence the vector, variant and untagged_variant the boxed variant.
C14_TagMatchesAlternative ==
  Delivered =>
    \A j \in 1..Len(e.fields) :
      e.fields[j].value.value.which = ExtractedAlternative[e.fields[j].value.type]

\* C15: an enumeration field is delivered as the Enumerator of its label
\* and its integer, so that interpret_or_throw of a FieldSpec<enumeration>
\* succeeds and returns them.
C15_EnumerationIsEnumerator ==
  Delivered =>
    \A i \in PositionsOfType({ "CTF_TYPE_ENUM" }) :
      LET def == raw.positions[i].def
          r   == interpret_or_throw(SpecOfPosition(i), e)
      IN  /\ r.st = "ok"
          /\ r.v = FromEnumerator(
                     [ as_string |-> def.label,
                       as_integer |-> IntegerUnsigned(def.int.value, def.int.len,
                                                      def.int.base) ])

\* The raw event at the cursor holds an enumeration whose label the engine
\* cannot supply.
LabelMissing ==
  /\ raw # NoRawEvent
  /\ \E i \in 1..Len(raw.positions) :
       /\ raw.positions[i].def.type = "CTF_TYPE_ENUM"
       /\ raw.positions[i].def.labelErr

\* C16: an enumeration whose label the engine cannot supply does not make
\* the decoding fail: the event is passed to the handler, the field holding
\* an Enumerator with the decoded integer.
C16_MissingLabelTolerated ==
  LabelMissing =>
    /\ Delivered
    /\ \A i \in PositionsOfType({ "CTF_TYPE_ENUM" }) :
         /\ DeliveredField(i).value.which = 3
         /\ DeliveredField(i).value.enumerator.as_integer =
              IntegerUnsigned(raw.positions[i].def.int.value,
                              raw.positions[i].def.int.len,
                              raw.positions[i].def.int.base)

\* C17: a variant or untagged_variant field is delivered as the boxed
\* value of its selected arm, so that unwrap (interpret_or_throw of a
\* FieldSpec<variant>) succeeds and gives the decoded arm.
C17_VariantIsBoxed ==
  Delivered =>
    \A i \in PositionsOfType({ "CTF_TYPE_VARIANT", "CTF_TYPE_UNTAGGED_VARIANT" }) :
      LET r == interpret_or_throw(SpecOfPosition(i), e)
      IN  /\ r.st = "ok"
          /\ r.v.which = 5

StructuralTypes == { "CTF_TYPE_STRUCT", "CTF_TYPE_ARRAY", "CTF_TYPE_SEQUENCE" }

\* The members or elements the schema declares for a structural field.
Declared(def) ==
  IF def.type = "CTF_TYPE_STRUCT" THEN def.members ELSE def.elems

RECURSIVE IsSequenceOf(_, _)
\* v is the vector of the values of the declared members or elements of
\* def, one each and in their order, and so are its structural elements.
IsSequenceOf(def, v) ==
  IF def.type \notin StructuralTypes THEN TRUE
  ELSE /\ v.which = 6
       /\ Len(v.elems) = Len(Declared(def))
       /\ \A k \in 1..Len(Declared(def)) : IsSequenceOf(Declared(def)[k], v.elems[k])

\* C18: a structure, array or sequence field is delivered as the vector of
\* its declared members or elements, as many and in their order, at every
\* depth of nesting.
C18_StructuralIsSequence ==
  Delivered =>
    \A i \in PositionsOfType(StructuralTypes) :
      IsSequenceOf(raw.positions[i].def, DeliveredField(i).value)

\* The engine reports an error for a leaf field of the raw event at the
\* cursor.
EngineFailsLeaf ==
  /\ raw # NoRawEvent
  /\ \E i \in 1..Len(raw.positions) :
       /\ raw.positions[i].def.type \in
            { "CTF_TYPE_INTEGER", "CTF_TYPE_FLOAT", "CTF_TYPE_STRING" }
       /\ raw.positions[i].def.err

\* C19: when the engine reports an error for an integer, floating-point or
\* string field, the decoding fails with an exception and the event is not
\* passed to the handler.
C19_LeafErrorFails ==
  EngineFailsLeaf =>
    /\ run.pc = "Failed"
    /\ run.error = "decode"
    /\ e = NoEvent

\* The positions of the delivered raw event that hold an unsigned integer
\* the engine reads, the first of their (scope, name).
UnsignedRead ==
  { i \in PositionsOfType({ "CTF_TYPE_INTEGER" }) :
      /\ raw.positions[i].def.signedness = 0
      /\ ~raw.positions[i].def.err
      /\ \A j \in 1..(i - 1) :
           << raw.positions[j].scope, raw.positions[j].def.name >> #
             << raw.positions[i].scope, raw.positions[i].def.name >> }

\* C20: for an unsigned integer v the engine yields in scope s under name
\* n, interpret_or_throw of FieldSpec<integer>(s, n) on the delivered event
\* gives an Integer whose as_uint64 is v and whose width and base are the
\* declaration's.
C20_UnsignedEndToEnd ==
  Delivered =>
    \A i \in UnsignedRead :
      LET def == raw.positions[i].def
          r   == interpret_or_throw(
                   FieldSpec(raw.positions[i].scope, def.name, "integer"), e)
      IN  /\ r.st = "ok"
          /\ as_uint64(r.v.integer) = [ st |-> "ok", v |-> def.value ]
          /\ r.v.integer.width = def.len
          /\ r.v.integer.base = def.base

C20_Witness ==
  /\ Delivered
  /\ raw.name = "malloc"
  /\ UnsignedRead # {}
  /\ raw.positions[1] = Position("event_fields", IntegerDef("size", 0, 128, FALSE))
  /\ as_uint64(interpret_or_throw(FieldSpec("event_fields", "size", "integer"), e).v.integer).v = 128

\* The latest accessor called on the Integer was fn.
Called(fn) == HasInteger /\ queried.got # NoAccess /\ queried.got.fn = fn

\* ------------------------------------------------------- lttng::Session
\* What cp.wait_for(core::posix::wait::Flags::untraced) reports of the
\* spawned lttng executable. The exit status is read only of a process
\* that exited.
WaitResults ==
  { [ status |-> "exited", exit |-> "success" ],
    [ status |-> "exited", exit |-> "failure" ],
    [ status |-> "signaled", exit |-> "unset" ],
    [ status |-> "stopped", exit |-> "unset" ] }

\* A check of the wait result that looks at the way the process ended only.
throw_if_not_exited(result) ==
  IF result.status # "exited" THEN "The lttng executable did not exit"
  ELSE "none"

\* throw_if_error: the std::runtime_error thrown, or "none".
throw_if_error(result) ==
  IF result.status # "exited" THEN "The lttng executable did not exit"
  ELSE IF result.exit # "success" THEN "The lttng executable exited with an error."
  ELSE "none"

SessionOperations == { "add_context", "enable_event", "start", "stop" }

\* One operation of a Session: core::posix::exec of /usr/bin/lttng, then
\* throw_if_error on what wait_for gives.
SessionCall(s, operation, result) ==
  [ operation |-> operation, result |-> result, thrown |-> throw_if_error(result) ]

\* lttng::Session::Session: "lttng create"; a constructor that throws
\* leaves no Session.
SessionCtor ==
  /\ session.state = "none"
  /\ \E result \in WaitResults :
       \E call \in { SessionCall(session, "Session", result) } :
         session' = [ state |-> IF call.thrown = "none" THEN "constructed" ELSE "failed",
                      calls |-> << call >> ]
  /\ UNCHANGED ctfVars
  /\ UNCHANGED device

\* add_context, enable_event, start or stop on a constructed Session; an
\* exception leaves the Session as it is.
SessionOperation(operation) ==
  /\ session.state = "constructed"
  /\ Len(session.calls) < MaxCalls
  /\ \E result \in WaitResults :
       session' = [ session EXCEPT !.calls = Append(@, SessionCall(session, operation, result)) ]
  /\ UNCHANGED ctfVars
  /\ UNCHANGED device

add_context == SessionOperation("add_context")

enable_event == SessionOperation("enable_event")

start == SessionOperation("start")

stop == SessionOperation("stop")

NextSession ==
  \/ SessionCtor
  \/ add_context
  \/ enable_event
  \/ start
  \/ stop

SpecSession == InitFieldSpec /\ [][NextSession]_vars

\* ---------------------------------------------- evdev::MultiTouchDevice
\* The slot of a contact made when no slot is left: the -1 of the
\* conditional expression, as the std::int32_t of the returned pair.
NoSlot == 0 - 1

\* *slots.lower_bound(0): the least element of a set that is not empty.
SlotsBegin(slots) == CHOOSE x \in slots : \A y \in slots : x <= y

\* What slots.erase(it) can do: it erases the element of a valid iterator;
\* erasing slots.end() is undefined, the call may leave the set as it is
\* or bring the process down.
EraseOutcomes(slots) == IF slots = {} THEN { "unchanged", "crash" } ELSE { "erased" }

\* take_first_free_slot_and_generate_id under one outcome of the erase.
take_first_free_slot_and_generate_id(d, outcome) ==
  LET result == IF d.slots # {} THEN SlotsBegin(d.slots) ELSE NoSlot
  IN  IF outcome = "crash"
        THEN [ d |-> [ d EXCEPT !.state = "crashed" ], pair |-> << result, 0 >> ]
        ELSE [ d |-> [ d EXCEPT !.slots = @ \ { result },
                                !.touch_identifier = @ + 1 ],
               pair |-> << result, d.touch_identifier + 1 >> ]

\* MultiTouchDevice::add_contact: a Contact of the slot and id taken.
AddContact ==
  /\ device.state = "open"
  /\ device.touch_identifier < MaxContacts
  /\ \E outcome \in EraseOutcomes(device.slots) :
       \E taken \in { take_first_free_slot_and_generate_id(device, outcome) } :
         device' =
           IF taken.d.state = "crashed" THEN taken.d
           ELSE [ taken.d EXCEPT
                    !.contacts = @ \cup { [ slot |-> taken.pair[1], id |-> taken.pair[2] ] },
                    !.issued = @ \cup { taken.pair[2] } ]
  /\ UNCHANGED ctfVars
  /\ UNCHANGED session

\* Contact::~Contact: the slot's tracking id is invalidated on the device;
\* the slot is not put back into slots.
DestroyContact ==
  /\ device.state = "open"
  /\ \E contact \in device.contacts :
       device' = [ device EXCEPT !.contacts = @ \ { contact } ]
  /\ UNCHANGED ctfVars
  /\ UNCHANGED session

NextDevice ==
  \/ AddContact
  \/ DestroyContact

SpecDevice == InitFieldSpec /\ [][NextDevice]_vars

\* C21: an Integer built from a signed value v reports is_signed, not
\* is_empty, and as_int64 gives v; one built from an unsigned value u
\* reports not is_signed, not is_empty, and as_uint64 gives u; a
\* default-constructed one reports is_empty, and as_int64 and as_uint64
\* both fail on it.
C21_IntegerAccessors ==
  /\ Called("is_signed") =>
       (queried.ctor # "default" => (queried.got.flag <=> (queried.ctor = "signed")))
  /\ Called("is_empty") => (queried.got.flag <=> (queried.ctor = "default"))
  /\ (Called("as_int64") /\ queried.ctor = "signed") =>
       queried.got.result = [ st |-> "ok", v |-> queried.arg ]
  /\ (Called("as_uint64") /\ queried.ctor = "unsigned") =>
       queried.got.result = [ st |-> "ok", v |-> queried.arg ]
  /\ ((Called("as_int64") \/ Called("as_uint64")) /\ queried.ctor = "default") =>
       queried.got.result.st = "bad_get"

C21_Witness ==
  /\ Called("as_int64")
  /\ queried.ctor = "signed"
  /\ queried.arg = -5
  /\ queried.got.result.v = -5

\* C28: the extraction converts no sign: as_uint64 fails on every Integer
\* built from a signed value, a non-negative one as well, and as_int64
\* fails on every Integer built from an unsigned value; the Integer is as
\* it was before the call.
C28_NoSignConversion ==
  [][ (HasInteger /\ queried'.got # NoAccess /\ queried'.got # queried.got) =>
        /\ queried'.integer = queried.integer
        /\ (queried'.got.fn = "as_uint64" /\ queried.ctor = "signed") =>
             queried'.got.result.st = "bad_get"
        /\ (queried'.got.fn = "as_int64" /\ queried.ctor = "unsigned") =>
             queried'.got.result.st = "bad_get" ]_vars

C28_Witness ==
  /\ Called("as_uint64")
  /\ queried.ctor = "signed"
  /\ queried.arg = 128
  /\ queried.got.result.st = "bad_get"
  /\ queried.integer = IntegerSigned(128, 64, 10)

\* C22: the construction of a Trace fails, and no Trace exists afterwards,
\* whenever no decodable recording is at or under the location, the case
\* that the engine refuses to add what is found there included; a Trace
\* exists only when the engine opened a recording.
C22_ConstructionFailsFast ==
  /\ (engine.trace # "none" /\ engine.location # "decodable") => engine.trace = "failed"
  /\ engine.trace \in { "alive", "destroyed" } => (engine.handle >= 0 /\ engine.traces = 1)

\* C23: once the Trace is destroyed, no context, no trace added to a
\* context and no iterator created for it is open.
C23_ResourcesReleased ==
  engine.trace = "destroyed" =>
    /\ engine.contexts = 0
    /\ engine.traces = 0
    /\ engine.iterators = 0

\* The six enumerators of Scope in the order of their declaration.
DeclaredScopes ==
  << "trace_packet_header", "stream_packet_context", "stream_event_header",
     "stream_event_context", "event_context", "event_fields" >>

\* The place of a scope in the declaration.
DeclaredAt(scope) == CHOOSE i \in 1..Len(DeclaredScopes) : DeclaredScopes[i] = scope

Did(op) == queried # NoQuery /\ queried.op = op

\* C24: Scope has six values; operator< on them is a strict total order,
\* the order of their declaration; scopes() lists each of the six once, in
\* that order.
C24_ScopeOrder ==
  /\ Cardinality(Scope) = Len(DeclaredScopes)
  /\ Did("less") =>
       /\ queried.value <=> (DeclaredAt(queried.lhs) < DeclaredAt(queried.rhs))
       /\ queried.lhs = queried.rhs => ~queried.value
       /\ queried.lhs # queried.rhs =>
            (queried.value <=> ~ScopeLess(queried.rhs, queried.lhs))
       /\ \A mid \in Scope :
            (queried.value /\ ScopeLess(queried.rhs, mid)) => ScopeLess(queried.lhs, mid)
  /\ Did("scopes") =>
       /\ queried.list = DeclaredScopes
       /\ { queried.list[i] : i \in 1..Len(queried.list) } = Scope
       /\ \A i, j \in 1..Len(queried.list) :
            i < j => ScopeLess(queried.list[i], queried.list[j])

C24_Witness ==
  /\ Did("less")
  /\ queried.lhs = "event_context"
  /\ queried.rhs = "event_fields"
  /\ queried.value

\* The text written for the value v of one of the three enumerations.
TextOf(set, v) ==
  CASE set = "Scope" -> ScopeText(v)
    [] set = "Field::Type" -> FieldTypeText(v)
    [] set = "EventEnumeratorReply" -> ReplyText(v)

\* The values of the enumerators of each of the three enumerations.
ValuesOf(set) ==
  CASE set = "Scope" -> { ScopeValue[scope] : scope \in Scope }
    [] set = "Field::Type" -> 0..(Len(FieldTypeNames) - 1)
    [] set = "EventEnumeratorReply" -> { ReplyValue[reply] : reply \in EventEnumeratorReply }

KeyOfPosition(i) == << raw.positions[i].scope, raw.positions[i].def.name >>

\* The first position of the raw event that has the key of position i.
FirstWithKey(i) ==
  CHOOSE j \in 1..Len(raw.positions) :
    /\ KeyOfPosition(j) = KeyOfPosition(i)
    /\ \A k \in 1..(j - 1) : KeyOfPosition(k) # KeyOfPosition(i)

\* C29: when the engine supplies several positions of one name in one
\* scope, the delivered event holds one Field under that (scope, name), the
\* one decoded from the first of them; positions of one name in different
\* scopes each have their Field.
C29_FirstFieldWins ==
  Delivered =>
    /\ \A i \in 1..Len(raw.positions) :
         /\ Cardinality({ j \in 1..Len(e.fields) : e.fields[j].key = KeyOfPosition(i) }) = 1
         /\ DeliveredField(i) =
              process_field_definition(raw.positions[FirstWithKey(i)].def,
                                       NoFieldError, "throw").field
    /\ Len(e.fields) = Cardinality({ KeyOfPosition(i) : i \in 1..Len(raw.positions) })

C29_Witness ==
  /\ Delivered
  /\ Len(raw.positions) = 2
  /\ KeyOfPosition(1) = KeyOfPosition(2)
  /\ raw.positions[1].def.type = "CTF_TYPE_INTEGER"
  /\ raw.positions[2].def.type = "CTF_TYPE_STRING"
  /\ Len(e.fields) = 1
  /\ e.fields[1].value.type = "integer"

\* C30: when bt_iter_next fails after an event was read, for_each_event
\* leaves the loop and returns normally with no error raised: the caller
\* observes what it observes of an exhausted trace, the handler having
\* received the events up to the one at the cursor and none after.
C30_IterNextFailureReturns ==
  run.iterFailed =>
    /\ run.pc = "Returned"
    /\ run.error = "none"
    /\ CallerObserves(run) = ExhaustedObservation
    /\ run.dispatched = Upto(run.cursor)
    /\ run.cursor <= traceLen

C30_Witness ==
  /\ run.iterFailed
  /\ run.pc = "Returned"
  /\ traceLen = 3
  /\ run.dispatched = << 1 >>

\* C26: every call made on a Session, its construction included, threw
\* exactly when the lttng process it spawned did not exit or exited with a
\* status other than success; a constructor that threw left no Session.
C26_SessionCallsCheckExit ==
  /\ \A i \in 1..Len(session.calls) :
       (session.calls[i].thrown = "none") <=>
         (session.calls[i].result.status = "exited" /\ session.calls[i].result.exit = "success")
  /\ session.state = "constructed" => session.calls[1].thrown = "none"
  /\ session.state = "failed" => session.calls[1].thrown # "none"
  /\ \A i \in 2..Len(session.calls) : session.calls[i].operation \in SessionOperations

C26_Witness ==
  /\ session.state = "constructed"
  /\ Len(session.calls) = 3
  /\ session.calls[2].operation = "start"
  /\ session.calls[2].result = [ status |-> "exited", exit |-> "failure" ]
  /\ session.calls[2].thrown # "none"
  /\ session.calls[3].operation = "stop"
  /\ session.calls[3].thrown = "none"

\* The slots no live contact holds.
FreeSlots(d) == InitialSlots \ { c.slot : c \in d.contacts }

\* C27: add_contact gives the new contact the lowest slot that no live
\* contact holds, no two live contacts share a slot, and the new tracking
\* id is greater than every id handed out before.
C27_LowestFreeSlot ==
  [][ \A contact \in device'.contacts \ device.contacts :
        /\ FreeSlots(device) # {} =>
             /\ contact.slot \in FreeSlots(device)
             /\ \A x \in FreeSlots(device) : contact.slot <= x
        /\ \A other \in device.contacts : other.slot # contact.slot
        /\ \A id \in device.issued : contact.id > id ]_vars

====
